---- MODULE Spec2Model ----
(***************************************************************************)
(* Model of src/app.py: the /predict handler of the Kerala solar           *)
(* estimator and the pure functions it calls.                              *)
(*                                                                         *)
(* Python floats are modelled in fixed point, every quantity an integer    *)
(* in a fixed unit:                                                        *)
(*   angles            tenths of a degree                                  *)
(*   cos, sin, factors thousandths                                         *)
(*   irradiance        hundredths of kWh/m2/day                            *)
(*   temperature       tenths of a degree Celsius                          *)
(*   array size        tenths of a kW                                      *)
(*   energy            kWh                                                 *)
(*   money             paise (hundredths of a rupee)                       *)
(* A division rounds towards minus infinity, which is monotone as the      *)
(* float operations are.                                                   *)
(***************************************************************************)
EXTENDS Integers, Sequences, FiniteSets, TLC

VARIABLES
    pc,                         \* position of the handler predict_solar
    model,                      \* the predictor loaded at import time
    data,                       \* the request body (SolarInput)
    optimal_tilt, tilt_used,
    climate,                    \* the payload returned by fetch_nasa_climate
    fetch_outcome,              \* what requests.get met
    fetch_calls, predict_calls, \* calls made to requests.get / model.predict
    month, monthly_energy, yearly_energy,
    ev_yearly_energy, total_yearly_usage, surplus_energy, grid_import_units,
    yearly_bill_without_solar, yearly_bill_with_solar,
    export_income, annual_net_benefit,
    gross_cost, subsidy, net_cost, payback_years, co2_offset,
    year, yearly_savings, total_savings_25, net_profit_25,
    raised,                     \* the exception that ended the run
    response,                   \* what the caller receives
    units, remaining, cost, slab_i, bill_pc   \* one call of calculate_kseb_domestic_bill

reqVars  == <<data, optimal_tilt, tilt_used>>
netVars  == <<climate, fetch_outcome, fetch_calls>>
simVars  == <<predict_calls, month, monthly_energy, yearly_energy>>
conVars  == <<ev_yearly_energy, total_yearly_usage, surplus_energy, grid_import_units>>
kwhVars  == <<yearly_bill_without_solar, yearly_bill_with_solar, export_income,
              annual_net_benefit>>
costVars == <<gross_cost, subsidy, net_cost, payback_years, co2_offset>>
projVars == <<year, yearly_savings, total_savings_25>>
outVars  == <<net_profit_25, raised, response>>
billVars == <<units, remaining, cost, slab_i, bill_pc>>
runVars  == <<pc, model, reqVars, netVars, simVars, conVars, kwhVars, costVars,
              projVars, outVars>>
vars     == <<runVars, billVars>>

-----------------------------------------------------------------------------
(* Bounds *)

MaxUnits == 400     \* units billed in the stand-alone billing runs: 0..MaxUnits

-----------------------------------------------------------------------------
(* Constants of the program *)

None == -999999         \* Python's None in an Optional[float] field

PR == 8                 \* 0.8, in tenths
COST_PER_KW == 60000    \* rupees
DEGRADATION_RATE == 5   \* 0.005, in thousandths
YEARS_PROJECTION == 25
EXPORT_TARIFF == 315    \* 3.15 rupees, in paise

MONTH_MAP ==
    <<"JAN", "FEB", "MAR", "APR", "MAY", "JUN",
      "JUL", "AUG", "SEP", "OCT", "NOV", "DEC">>

DAYS_IN_MONTH == <<31, 28, 31, 30, 31, 30, 31, 31, 30, 31, 30, 31>>

inf == 2147483647       \* float("inf"): above every quantity of the model

Abs(x) == IF x < 0 THEN -x ELSE x
Min(a, b) == IF a <= b THEN a ELSE b
Max(a, b) == IF a >= b THEN a ELSE b

-----------------------------------------------------------------------------
(* KSEB slab billing *)

slabs ==
    << [slab_units |-> 50,  rate |-> 315],
       [slab_units |-> 50,  rate |-> 370],
       [slab_units |-> 100, rate |-> 480],
       [slab_units |-> 100, rate |-> 640],
       [slab_units |-> inf, rate |-> 750] >>

\* Mutant: the band is charged but `remaining -= used` is lost.
BillCharge_KeepsRemaining(st, slab) ==
    LET used == Min(st.remaining, slab.slab_units)
    IN  [remaining |-> st.remaining, cost |-> st.cost + used * slab.rate]

\* The body of the for loop, after the break test: one band is charged.
BillCharge(st, slab) ==
    LET used == Min(st.remaining, slab.slab_units)
    IN  [remaining |-> st.remaining - used, cost |-> st.cost + used * slab.rate]

\* The for loop from band i on: it breaks when nothing remains.
RECURSIVE BillWalk(_, _)
BillWalk(i, st) ==
    IF i > Len(slabs) \/ st.remaining <= 0
    THEN st
    ELSE BillWalk(i + 1, BillCharge(st, slabs[i]))

calculate_kseb_domestic_bill(u) ==
    BillWalk(1, [remaining |-> u, cost |-> 0]).cost

-----------------------------------------------------------------------------
(* Solar physics helpers *)

\* np.cos of an angle in tenths of a degree, in thousandths, by Bhaskara's
\* rational approximation (error below 0.002) after reduction to [0, 90].
CosQuadrant(x) == ((3240000 - 4 * x * x) * 100) \div ((3240000 + x * x) \div 10)

np_cos(a) ==
    LET r == Abs(a) % 3600
        f == IF r > 1800 THEN 3600 - r ELSE r
    IN  IF f <= 900 THEN CosQuadrant(f) ELSE -CosQuadrant(1800 - f)

np_sin(a) == np_cos(900 - a)

calculate_optimal_tilt(latitude) == Abs((76 * latitude) \div 100 + 31)

calculate_cell_temperature(ambient_temp, irradiance_kwh_m2_day, noct) ==
    LET irradiance_w_m2 == (irradiance_kwh_m2_day * 100) \div 24   \* tenths of W/m2
        coeff == ((noct - 20) * 100000) \div 800                   \* 1e-5 K per W/m2
    IN  ambient_temp + (coeff * irradiance_w_m2) \div 100000

temperature_derating_from_cell(cell_temp) ==
    LET effect == 1000 + ((-4) * (cell_temp - 250)) \div 10
    IN  Max(750, Min(effect, 1050))

\* cos(latitude) is never exactly 0.0 in floating point (cos(pi/2) is 6e-17),
\* so the quotient at the pole is huge and takes the clamp of its sign.
apply_tilt_correction(ghi, latitude, tilt) ==
    LET num == np_cos(latitude - tilt)
        den == np_cos(latitude)
        raw == IF den = 0
               THEN (IF num > 0 THEN 1150 ELSE IF num < 0 THEN 850 ELSE 0)
               ELSE (num * 1000) \div den
        tilt_factor == Max(850, Min(1150, raw))
    IN  (ghi * tilt_factor) \div 1000

-----------------------------------------------------------------------------
(* PM Surya Ghar subsidy, in paise, of a size in tenths of a kW *)

\* Mutant: the second tier keeps the first tier's rate.
calculate_pm_surya_ghar_subsidy_SameRate(system_size_kw) ==
    IF system_size_kw <= 20
    THEN system_size_kw * 300000
    ELSE IF system_size_kw <= 30
         THEN 6000000 + (system_size_kw - 20) * 300000
         ELSE 7800000

calculate_pm_surya_ghar_subsidy(system_size_kw) ==
    IF system_size_kw <= 20
    THEN system_size_kw * 300000
    ELSE IF system_size_kw <= 30
         THEN 6000000 + (system_size_kw - 20) * 180000
         ELSE 7800000

-----------------------------------------------------------------------------
(* The collaborators: the loaded predictor and the NASA climate service *)

\* joblib.load gives whatever was pickled: a predictor that is constant, one
\* that varies with the month and the weather, or one trained on another
\* feature schema, whose predict raises on the 7-feature row.
Models == {"constant", "seasonal", "five_features"}

model_predict(m, input_data) ==
    IF m = "constant"
    THEN 450
    ELSE 430 + (input_data[7] * 60) \div 1000 + (input_data[6] * 30) \div 1000
             + (input_data[3] - 270) \div 2 - (input_data[4] - 70) \div 10

MonthIndex(k) == CHOOSE i \in 1..12 : MONTH_MAP[i] = k

MonthKeys == {MONTH_MAP[i] : i \in 1..12}

MonthTable(keys, values) == [k \in keys |-> values[MonthIndex(k)]]

Flat(v) == [i \in 1..12 |-> v]

\* Payloads of response.json()["properties"]["parameter"].
Normals27 ==
    [T2M  |-> MonthTable(MonthKeys, Flat(270)),
     RH2M |-> MonthTable(MonthKeys, Flat(70)),
     WS2M |-> MonthTable(MonthKeys, Flat(30))]

NormalsVaried ==
    [T2M  |-> MonthTable(MonthKeys,
                  <<265, 272, 284, 290, 287, 268, 262, 263, 267, 270, 268, 264>>),
     RH2M |-> MonthTable(MonthKeys,
                  <<62, 60, 63, 70, 75, 85, 87, 85, 80, 78, 72, 65>>),
     WS2M |-> MonthTable(MonthKeys,
                  <<25, 26, 28, 30, 33, 38, 40, 37, 30, 24, 23, 24>>)]

MissingMonth ==
    [T2M  |-> MonthTable(MonthKeys \ {"MAR"}, Flat(270)),
     RH2M |-> MonthTable(MonthKeys, Flat(70)),
     WS2M |-> MonthTable(MonthKeys, Flat(30))]

MissingParameter ==
    [T2M  |-> MonthTable(MonthKeys, Flat(270)),
     RH2M |-> MonthTable(MonthKeys, Flat(70))]

Payloads == {Normals27, NormalsVaried, MissingMonth, MissingParameter}

NoClimate == [p \in {} |-> 0]

\* What makes the try block of fetch_nasa_climate raise: the transport
\* (timeout, connection), raise_for_status, or a JSON body without
\* ["properties"]["parameter"].
FetchErrors == {"timeout", "unreachable", "http_status", "no_parameter_block"}

-----------------------------------------------------------------------------
(* Requests *)

Latitudes    == {None, 100, 600, 950}
Longitudes   == {760, 2000}
SystemSizes  == {0, 20, 25, 50}
Consumptions == {-100, 0, 20, 250}
EvDailyKm    == {None, 0, 40}
EvEfficiency == {None, 0, 6}
Tilts        == {None, 300}
Nocts        == {45}

SolarInput ==
    [Latitude : Latitudes, Longitude : Longitudes, System_Size : SystemSizes,
     Monthly_Consumption : Consumptions, EV_Daily_KM : EvDailyKm,
     EV_Efficiency : EvEfficiency, Tilt : Tilts, NOCT : Nocts]

NoData ==
    [Latitude |-> None, Longitude |-> None, System_Size |-> None,
     Monthly_Consumption |-> None, EV_Daily_KM |-> None, EV_Efficiency |-> None,
     Tilt |-> None, NOCT |-> None]

NoResponse == [status |-> 0]

FetchFailedResponse == [status |-> 500, detail |-> "Failed to fetch NASA data"]

\* What the server answers when the handler lets an exception escape.
InternalServerError == [status |-> 500, detail |-> "Internal Server Error"]

UnprocessableEntity == [status |-> 422, detail |-> "value_error.missing"]

\* Python truthiness of an Optional[float].
Truthy(x) == x # None /\ x # 0

-----------------------------------------------------------------------------
(* Initial state *)

InitBillIdle ==
    /\ units = 0 /\ remaining = 0 /\ cost = 0 /\ slab_i = 1 /\ bill_pc = "idle"

InitRun ==
    /\ pc = "idle"
    /\ model \in Models
    /\ data = NoData
    /\ optimal_tilt = 0 /\ tilt_used = 0
    /\ climate = NoClimate
    /\ fetch_outcome = "none"
    /\ fetch_calls = 0 /\ predict_calls = 0
    /\ month = 0 /\ monthly_energy = 0 /\ yearly_energy = 0
    /\ ev_yearly_energy = 0 /\ total_yearly_usage = 0
    /\ surplus_energy = 0 /\ grid_import_units = 0
    /\ yearly_bill_without_solar = 0 /\ yearly_bill_with_solar = 0
    /\ export_income = 0 /\ annual_net_benefit = 0
    /\ gross_cost = 0 /\ subsidy = 0 /\ net_cost = 0
    /\ payback_years = <<>> /\ co2_offset = 0
    /\ year = 0 /\ yearly_savings = 0 /\ total_savings_25 = 0
    /\ net_profit_25 = 0
    /\ raised = "none"
    /\ response = NoResponse

Init == InitRun /\ InitBillIdle

\* An exception leaves the handler: nothing else of the run changes.
Raise(exception, answer) ==
    /\ pc' = "failed"
    /\ raised' = exception
    /\ response' = answer
    /\ UNCHANGED net_profit_25

-----------------------------------------------------------------------------
(* POST /predict *)

\* pydantic rejects a body in which a required field is missing; the handler
\* is not entered.  SolarInput constrains no range.
RejectBody ==
    /\ pc = "idle"
    /\ \E body \in SolarInput :
          /\ body.Latitude = None
          /\ data' = body
    /\ Raise("RequestValidationError", UnprocessableEntity)
    /\ UNCHANGED <<model, optimal_tilt, tilt_used, netVars, simVars, conVars,
                   kwhVars, costVars, projVars, billVars>>

\* Lines 143-144: the handler is entered with a parsed body.
EnterPredict ==
    /\ pc = "idle"
    /\ \E body \in SolarInput :
          /\ body.Latitude # None
          /\ data' = body
          /\ optimal_tilt' = calculate_optimal_tilt(body.Latitude)
          /\ tilt_used' = IF body.Tilt # None
                          THEN body.Tilt
                          ELSE calculate_optimal_tilt(body.Latitude)
    /\ pc' = "fetch"
    /\ UNCHANGED <<model, netVars, simVars, conVars, kwhVars, costVars, projVars,
                   outVars, billVars>>

\* Mutant: the except branch swallows the failure and the run goes on with
\* default normals.
FetchRaises_Swallowed ==
    /\ pc = "fetch"
    /\ \E e \in FetchErrors : fetch_outcome' = e
    /\ fetch_calls' = fetch_calls + 1
    /\ climate' = Normals27
    /\ yearly_energy' = 0
    /\ month' = 1
    /\ pc' = "month"
    /\ UNCHANGED <<model, reqVars, predict_calls, monthly_energy, conVars, kwhVars,
                   costVars, projVars, outVars, billVars>>

\* fetch_nasa_climate, the except branch: any exception of the try block
\* becomes HTTPException(500), which leaves predict_solar at line 146.
FetchRaises ==
    /\ pc = "fetch"
    /\ \E e \in FetchErrors : fetch_outcome' = e
    /\ fetch_calls' = fetch_calls + 1
    /\ Raise("HTTPException", FetchFailedResponse)
    /\ UNCHANGED <<model, reqVars, climate, simVars, conVars, kwhVars, costVars,
                   projVars, billVars>>

\* fetch_nasa_climate returns the parameter block; line 147 and the loop
\* header follow.
FetchReturns ==
    /\ pc = "fetch"
    /\ \E payload \in Payloads : climate' = payload
    /\ fetch_outcome' = "ok"
    /\ fetch_calls' = fetch_calls + 1
    /\ yearly_energy' = 0
    /\ month' = 1
    /\ pc' = "month"
    /\ UNCHANGED <<model, reqVars, predict_calls, monthly_energy, conVars, kwhVars,
                   costVars, projVars, outVars, billVars>>

HasNormal(parameter, month_key) ==
    /\ parameter \in DOMAIN climate
    /\ month_key \in DOMAIN climate[parameter]

\* Mutant: every month is taken to have 30 days.
MonthlyEnergy_ThirtyDays(system_size, corrected_irradiance, m, temp_effect) ==
    ((((system_size * corrected_irradiance * 30) * PR) \div 10)
        * temp_effect) \div 1000000

\* Lines 184-190, the product taken left to right.
MonthlyEnergy(system_size, corrected_irradiance, m, temp_effect) ==
    ((((system_size * corrected_irradiance * DAYS_IN_MONTH[m]) * PR) \div 10)
        * temp_effect) \div 1000000

\* One iteration of the monthly simulation, lines 150-192.
MonthStep ==
    /\ pc = "month"
    /\ LET month_key == MONTH_MAP[month]
       IN  IF \/ ~HasNormal("T2M", month_key)
              \/ ~HasNormal("RH2M", month_key)
              \/ ~HasNormal("WS2M", month_key)
           THEN \* a subscript of lines 153, 162, 163 raises KeyError
                /\ Raise("KeyError", InternalServerError)
                /\ UNCHANGED simVars
           ELSE LET temp == climate["T2M"][month_key]
                    month_sin == np_sin(300 * month)
                    month_cos == np_cos(300 * month)
                    input_data == <<data.Latitude, data.Longitude, temp,
                                    climate["RH2M"][month_key],
                                    climate["WS2M"][month_key],
                                    month_sin, month_cos>>
                IN  IF model = "five_features"
                    THEN \* model.predict raises on the feature count
                         /\ predict_calls' = predict_calls + 1
                         /\ Raise("ValueError", InternalServerError)
                         /\ UNCHANGED <<month, monthly_energy, yearly_energy>>
                    ELSE LET predicted_ghi == model_predict(model, input_data)
                             corrected_irradiance ==
                                 apply_tilt_correction(predicted_ghi, data.Latitude,
                                                       tilt_used)
                             cell_temp ==
                                 calculate_cell_temperature(temp, corrected_irradiance,
                                                            data.NOCT)
                             temp_effect == temperature_derating_from_cell(cell_temp)
                             energy == MonthlyEnergy(data.System_Size,
                                                     corrected_irradiance, month,
                                                     temp_effect)
                         IN  /\ predict_calls' = predict_calls + 1
                             /\ monthly_energy' = energy
                             /\ yearly_energy' = yearly_energy + energy
                             /\ month' = month + 1
                             /\ pc' = IF month = 12 THEN "consumption" ELSE "month"
                             /\ UNCHANGED outVars
    /\ UNCHANGED <<model, reqVars, netVars, conVars, kwhVars, costVars, projVars,
                   billVars>>

\* Mutant: the test for a non-zero, positive efficiency is dropped.
EvSupplied_NoPositiveTest(daily_km, efficiency) ==
    Truthy(daily_km) /\ efficiency # None

\* Line 199: the condition under which the EV division is evaluated.
EvSupplied(daily_km, efficiency) ==
    Truthy(daily_km) /\ Truthy(efficiency) /\ efficiency > 0

\* Lines 197-207.
Consumption ==
    /\ pc = "consumption"
    /\ LET yearly_home_consumption == data.Monthly_Consumption * 12
       IN  IF EvSupplied(data.EV_Daily_KM, data.EV_Efficiency)
           THEN IF data.EV_Efficiency = 0
                THEN /\ Raise("ZeroDivisionError", InternalServerError)
                     /\ UNCHANGED conVars
                ELSE LET ev == (((data.EV_Daily_KM * 1000) \div data.EV_Efficiency)
                                    * 365) \div 1000
                         usage == yearly_home_consumption + ev
                     IN  /\ ev_yearly_energy' = ev
                         /\ total_yearly_usage' = usage
                         /\ surplus_energy' = yearly_energy - usage
                         /\ grid_import_units' = Max(0, usage - yearly_energy)
                         /\ pc' = "billing"
                         /\ UNCHANGED outVars
           ELSE /\ ev_yearly_energy' = 0
                /\ total_yearly_usage' = yearly_home_consumption
                /\ surplus_energy' = yearly_energy - yearly_home_consumption
                /\ grid_import_units' = Max(0, yearly_home_consumption - yearly_energy)
                /\ pc' = "billing"
                /\ UNCHANGED outVars
    /\ UNCHANGED <<model, reqVars, netVars, simVars, kwhVars, costVars, projVars,
                   billVars>>

\* Lines 212-220.
Billing ==
    /\ pc = "billing"
    /\ LET without == calculate_kseb_domestic_bill(total_yearly_usage)
           with == calculate_kseb_domestic_bill(grid_import_units)
           income == Max(0, surplus_energy) * EXPORT_TARIFF
       IN  /\ yearly_bill_without_solar' = without
           /\ yearly_bill_with_solar' = with
           /\ export_income' = income
           /\ annual_net_benefit' = without - with + income
    /\ pc' = "cost"
    /\ UNCHANGED <<model, reqVars, netVars, simVars, conVars, costVars, projVars,
                   outVars, billVars>>

\* Lines 229-232: the quotient is kept exact, as <<numerator, denominator>>;
\* <<>> is None.
Payback(cost_net, benefit) ==
    IF benefit > 0 THEN <<cost_net, benefit>> ELSE <<>>

\* Lines 225-242.
CostAndSubsidy ==
    /\ pc = "cost"
    /\ LET gross == data.System_Size * (COST_PER_KW * 10)
           sub == calculate_pm_surya_ghar_subsidy(data.System_Size)
       IN  /\ gross_cost' = gross
           /\ subsidy' = sub
           /\ net_cost' = gross - sub
           /\ payback_years' = Payback(gross - sub, annual_net_benefit)
    /\ co2_offset' = (yearly_energy * 82) \div 100
    /\ total_savings_25' = 0
    /\ year' = 0
    /\ pc' = "projection"
    /\ UNCHANGED <<model, reqVars, netVars, simVars, conVars, kwhVars, yearly_savings,
                   outVars, billVars>>

\* (1 - DEGRADATION_RATE) ** y, in 1e-5.
RECURSIVE DegradationFactor(_)
DegradationFactor(y) ==
    IF y = 0 THEN 100000
    ELSE (DegradationFactor(y - 1) * (1000 - DEGRADATION_RATE)) \div 1000

\* Mutant: the output grows by the rate each year instead of shrinking.
DegradedEnergy_Growing(y) ==
    (yearly_energy * (100000 + 100 * DEGRADATION_RATE * y)) \div 100000

\* Line 246.
DegradedEnergy(y) == (yearly_energy * DegradationFactor(y)) \div 100000

\* Mutant: the exported surplus of line 252 is not credited.
YearlySavings_NoExport(y) ==
    LET degraded_energy == DegradedEnergy(y)
        degraded_import == Max(0, total_yearly_usage - degraded_energy)
        bill_with_solar == calculate_kseb_domestic_bill(degraded_import)
    IN  yearly_bill_without_solar - bill_with_solar

\* Lines 246-252: the savings of projection year y.
YearlySavings(y) ==
    LET degraded_energy == DegradedEnergy(y)
        degraded_import == Max(0, total_yearly_usage - degraded_energy)
        bill_with_solar == calculate_kseb_domestic_bill(degraded_import)
        degraded_surplus == Max(0, degraded_energy - total_yearly_usage)
    IN  (yearly_bill_without_solar - bill_with_solar)
            + degraded_surplus * EXPORT_TARIFF

\* One iteration of the projection loop, lines 244-254.
ProjectYear ==
    /\ pc = "projection"
    /\ year < YEARS_PROJECTION
    /\ yearly_savings' = YearlySavings(year)
    /\ total_savings_25' = total_savings_25 + YearlySavings(year)
    /\ year' = year + 1
    /\ pc' = IF year + 1 < YEARS_PROJECTION THEN "projection" ELSE "respond"
    /\ UNCHANGED <<model, reqVars, netVars, simVars, conVars, kwhVars, costVars,
                   outVars, billVars>>

\* round(q, 2) of an exact quotient, in hundredths.
Round2(q) ==
    LET whole == q[1] \div q[2]
        rest == q[1] % q[2]
    IN  whole * 100 + (rest * 200 + q[2]) \div (2 * q[2])

\* Line 275: `round(payback_years, 2) if payback_years else None`.
ReportedPayback(p) ==
    IF p # <<>> /\ p[1] # 0 THEN Round2(p) ELSE None

\* Lines 256-281.
Respond ==
    /\ pc = "respond"
    /\ net_profit_25' = total_savings_25 - net_cost
    /\ response' =
          [status |-> 200,
           Solar_Generation_kWh_per_Year |-> yearly_energy,
           Total_Usage_kWh_per_Year |-> total_yearly_usage,
           Optimal_Tilt_Suggested_Degrees |-> optimal_tilt,
           Panel_Tilt_Used_Degrees |-> tilt_used,
           Gross_System_Cost_Rs |-> gross_cost,
           PM_Surya_Ghar_Subsidy_Rs |-> subsidy,
           Net_System_Cost_Rs |-> net_cost,
           Annual_Bill_Without_Solar_Rs |-> yearly_bill_without_solar,
           Annual_Bill_With_Solar_Rs |-> yearly_bill_with_solar,
           Annual_Net_Benefit_Rs |-> annual_net_benefit,
           Payback_Years |-> ReportedPayback(payback_years),
           CO2_Offset_Tons_per_Year |-> co2_offset,
           Total_Savings_25_Year_Rs |-> total_savings_25,
           Net_Profit_25_Year_Rs |-> total_savings_25 - net_cost]
    /\ pc' = "done"
    /\ UNCHANGED <<model, reqVars, netVars, simVars, conVars, kwhVars, costVars,
                   projVars, raised, billVars>>

Next ==
    \/ RejectBody
    \/ EnterPredict
    \/ FetchRaises
    \/ FetchReturns
    \/ MonthStep
    \/ Consumption
    \/ Billing
    \/ CostAndSubsidy
    \/ ProjectYear
    \/ Respond

Spec == Init /\ [][Next]_vars

-----------------------------------------------------------------------------
(* calculate_kseb_domestic_bill on its own, one band per step *)

InitBill ==
    /\ InitRun
    /\ units \in 0..MaxUnits
    /\ remaining = units
    /\ cost = 0
    /\ slab_i = 1
    /\ bill_pc = "loop"

\* Lines 76-81 for one band that is reached with units left.
BillIterate ==
    /\ bill_pc = "loop"
    /\ slab_i <= Len(slabs)
    /\ remaining > 0
    /\ LET st == BillCharge([remaining |-> remaining, cost |-> cost], slabs[slab_i])
       IN  /\ remaining' = st.remaining
           /\ cost' = st.cost
    /\ slab_i' = slab_i + 1
    /\ UNCHANGED <<units, bill_pc, runVars>>

\* The break of line 78 or the end of the band list; line 83.
BillReturn ==
    /\ bill_pc = "loop"
    /\ (slab_i > Len(slabs) \/ remaining <= 0)
    /\ bill_pc' = "returned"
    /\ UNCHANGED <<units, remaining, cost, slab_i, runVars>>

NextBill == BillIterate \/ BillReturn

SpecBill == InitBill /\ [][NextBill]_vars

-----------------------------------------------------------------------------
(* Properties *)

AfterLoop        == {"consumption", "billing", "cost", "projection", "respond", "done"}
AfterConsumption == AfterLoop \ {"consumption"}
AfterCost        == {"projection", "respond", "done"}

RECURSIVE SumTo(_, _)
SumTo(F(_), n) == IF n < 0 THEN 0 ELSE F(n) + SumTo(F, n - 1)

\* The charge of the band that starts above `lower` units.
BandCharge(u, lower, capacity, rate) == Min(Max(u - lower, 0), capacity) * rate

SlabSum(u) ==
      BandCharge(u, 0, 50, 315) + BandCharge(u, 50, 50, 370)
    + BandCharge(u, 100, 100, 480) + BandCharge(u, 200, 100, 640)
    + Max(u - 300, 0) * 750

\* C1: for every non-negative units, the bill returned is the sum of the
\* per-band charges of 50 @ 3.15, 50 @ 3.70, 100 @ 4.80, 100 @ 6.40 and the
\* rest @ 7.50; the bill of 0 units is 0; and when the walk stops no unit is
\* left uncharged.
C1_BillIsSlabSum ==
    bill_pc = "returned" =>
        /\ cost = SlabSum(units)
        /\ remaining = 0
        /\ (units = 0 => cost = 0)
        /\ calculate_kseb_domestic_bill(units) = cost

C1_Witness ==
    bill_pc = "returned" /\ units > 300 /\ slab_i = 6 /\ cost > 205500

GregorianDays == <<31, 28, 31, 30, 31, 30, 31, 31, 30, 31, 30, 31>>

\* The energy of calendar month m from that month's own normals and prediction.
ExpectedMonthlyEnergy(m) ==
    LET key == MONTH_MAP[m]
        temp == climate["T2M"][key]
        ghi == model_predict(model, <<data.Latitude, data.Longitude, temp,
                                      climate["RH2M"][key], climate["WS2M"][key],
                                      np_sin(300 * m), np_cos(300 * m)>>)
        corrected == apply_tilt_correction(ghi, data.Latitude, tilt_used)
        derating == temperature_derating_from_cell(
                        calculate_cell_temperature(temp, corrected, data.NOCT))
    IN  (((data.System_Size * corrected * GregorianDays[m] * 8) \div 10) * derating)
            \div 1000000

ExpectedFromMonth1(n) == IF n = 0 THEN 0 ELSE ExpectedMonthlyEnergy(n)

\* C2: while the monthly loop runs, yearly_energy is the sum of the energies
\* of the months done so far, and once it has finished (and still when the
\* result is returned) yearly_energy is the sum of the twelve monthly
\* energies, each month counted once with its own days, normals and
\* prediction.
C2_YearlyIsSumOfMonths ==
    /\ pc = "month" =>
          /\ predict_calls = month - 1
          /\ yearly_energy = SumTo(ExpectedFromMonth1, month - 1)
    /\ pc \in AfterLoop => predict_calls = 12
    /\ pc \in {"consumption", "done"} =>
          /\ yearly_energy = SumTo(ExpectedFromMonth1, 12)
          /\ (pc = "done" => response.Solar_Generation_kWh_per_Year = yearly_energy)

C2_Witness ==
    /\ pc = "consumption"
    /\ model = "seasonal" /\ climate = NormalsVaried
    /\ yearly_energy > 0
    /\ yearly_energy # 12 * monthly_energy

\* C3: the payback reported is None when annual_net_benefit <= 0 and the
\* rounded quotient net_cost / annual_net_benefit when annual_net_benefit > 0.
C3_PaybackReported ==
    pc = "done" =>
        response.Payback_Years =
            IF annual_net_benefit <= 0
            THEN None
            ELSE Round2(<<net_cost, annual_net_benefit>>)

OutOfRange(d) ==
    \/ d.Latitude < -900 \/ d.Latitude > 900
    \/ d.Longitude < -1800 \/ d.Longitude > 1800
    \/ d.System_Size <= 0

\* C4: a request with latitude outside [-90, 90], longitude outside
\* [-180, 180] or system size <= 0 never reaches the climate fetch or the
\* predictor and gets no estimation result.
C4_OutOfRangeRejected ==
    (data # NoData /\ OutOfRange(data)) =>
        /\ fetch_calls = 0
        /\ predict_calls = 0
        /\ pc # "done"

DataMissing ==
    \/ fetch_outcome = "no_parameter_block"
    \/ fetch_outcome = "ok" /\ climate \in {MissingMonth, MissingParameter}

\* C5: a run that fails because the fetched payload lacks a required
\* parameter or month fails with an error of its own kind: not the
\* fetch-failure error, and not what any other failure gives the caller.
C5_ClimateDataMissingDistinct ==
    (pc = "failed" /\ DataMissing /\ raised # "ValueError") =>
        /\ raised # "HTTPException"
        /\ response # FetchFailedResponse
        /\ response # InternalServerError

\* C6: the climate fetch is made once and before any predictor call; a
\* failed fetch ends the run with the fetch failure, without a second fetch,
\* without a predictor call and without a result.
C6_FetchOnceBeforePredict ==
    /\ fetch_calls <= 1
    /\ predict_calls > 0 => (fetch_calls = 1 /\ fetch_outcome = "ok")
    /\ pc \in {"month"} \cup AfterLoop => fetch_calls = 1
    /\ fetch_outcome \in FetchErrors =>
          /\ pc = "failed"
          /\ fetch_calls = 1
          /\ predict_calls = 0
          /\ response = FetchFailedResponse

C6_Witness ==
    pc = "failed" /\ fetch_outcome = "timeout" /\ fetch_calls = 1

\* C7: yearly EV energy is (EV_Daily_KM / EV_Efficiency) * 365 when a
\* distance and a positive efficiency are supplied; with an efficiency of 0
\* or absent, or an absent distance, it is 0, the usage is
\* Monthly_Consumption * 12, and no division error is raised.
C7_EvEnergy ==
    /\ raised # "ZeroDivisionError"
    /\ pc \in AfterConsumption =>
          /\ (\/ data.EV_Daily_KM = None
              \/ data.EV_Efficiency = None
              \/ data.EV_Efficiency = 0) =>
                 /\ ev_yearly_energy = 0
                 /\ total_yearly_usage = data.Monthly_Consumption * 12
          /\ (/\ data.EV_Daily_KM # None
              /\ data.EV_Efficiency # None
              /\ data.EV_Efficiency > 0) =>
                 /\ ev_yearly_energy =
                        (((data.EV_Daily_KM * 1000) \div data.EV_Efficiency) * 365)
                            \div 1000
                 /\ total_yearly_usage =
                        data.Monthly_Consumption * 12 + ev_yearly_energy

C7_Witness ==
    /\ pc = "billing"
    /\ data.EV_Daily_KM = 40 /\ data.EV_Efficiency = 0
    /\ ev_yearly_energy = 0

ScheduledSubsidy(size) ==
    CASE size <= 20 -> size * 300000
      [] size > 20 /\ size <= 30 -> 6000000 + (size - 20) * 180000
      [] size > 30 -> 7800000

\* C8: the subsidy is size * 30000 up to 2 kW, 60000 + (size - 2) * 18000 up
\* to 3 kW and 78000 above; 2 kW gives 60000, 2.5 kW 69000, 5 kW 78000; and
\* net_cost is System_Size * 60000 less the subsidy.
C8_SubsidySchedule ==
    pc \in AfterCost =>
        /\ subsidy = ScheduledSubsidy(data.System_Size)
        /\ (data.System_Size = 20 => subsidy = 6000000)
        /\ (data.System_Size = 25 => subsidy = 6900000)
        /\ (data.System_Size = 50 => subsidy = 7800000)
        /\ gross_cost = data.System_Size * 600000
        /\ net_cost = data.System_Size * 600000 - subsidy

C8_Witness ==
    /\ pc = "projection"
    /\ data.System_Size = 25
    /\ subsidy = 6900000
    /\ net_cost = 8100000

\* The savings of projection year y against the first-year bill.
ExpectedSavings(y) ==
    LET degraded == (yearly_energy * DegradationFactor(y)) \div 100000
    IN  yearly_bill_without_solar
            - SlabSum(Max(0, total_yearly_usage - degraded))
            + Max(0, degraded - total_yearly_usage) * 315

\* C9: the projection runs for the years 0..24; total_savings_25 is the sum
\* over these years of the first-year bill without solar, less the bill of
\* the degraded import, plus the degraded surplus at the export tariff; and
\* net_profit_25 is total_savings_25 less net_cost.
C9_ProjectionTotals ==
    /\ pc = "projection" =>
          /\ year \in 0..24
          /\ (year = 0 => total_savings_25 = 0)
          /\ (year = 1 => total_savings_25 = ExpectedSavings(0))
    /\ pc \in {"respond", "done"} =>
          /\ year = 25
          /\ yearly_bill_without_solar = SlabSum(total_yearly_usage)
          /\ total_savings_25 = SumTo(ExpectedSavings, 24)
    /\ pc = "done" =>
          /\ net_profit_25 = total_savings_25 - net_cost
          /\ response.Total_Savings_25_Year_Rs = total_savings_25
          /\ response.Net_Profit_25_Year_Rs = total_savings_25 - net_cost

C9_Witness ==
    /\ pc = "done"
    /\ year = 25
    /\ surplus_energy > 0
    /\ (yearly_energy * DegradationFactor(24)) \div 100000 < total_yearly_usage
    /\ total_savings_25 > 0

\* C10: with yearly_energy >= 0 and usage >= 0, the savings of projection
\* year 0 are annual_net_benefit, every year's savings are >= 0 and not above
\* those of the year before, and the running total stays within
\* annual_net_benefit per year, so total_savings_25 <= 25 * annual_net_benefit.
C10_SavingsNonIncreasing ==
    [][ (pc = "projection" /\ yearly_energy >= 0 /\ total_yearly_usage >= 0) =>
           /\ yearly_savings' >= 0
           /\ (year = 0 => yearly_savings' = annual_net_benefit)
           /\ (year >= 1 => yearly_savings' <= yearly_savings)
           /\ total_savings_25' <= (year + 1) * annual_net_benefit
           /\ (pc' = "respond" => total_savings_25' <= 25 * annual_net_benefit)
      ]_vars

C10_Witness ==
    /\ pc = "respond"
    /\ yearly_energy > 0
    /\ total_yearly_usage > yearly_energy
    /\ yearly_savings > 0
    /\ yearly_savings < annual_net_benefit
    /\ total_savings_25 < 25 * annual_net_benefit

====
